---- MODULE Spec2Model ----
(***************************************************************************)
(* Model of the anti-fingerprint plugin (PlaywrightAntiFingerprintPlugin)  *)
(* and of the script it injects into every page: cross-tab session seed    *)
(* coordination over localStorage and a BroadcastChannel, device profile   *)
(* selection, and the once-per-page installation of the interceptors;      *)
(* then the script's interceptors themselves: the seeded random streams,   *)
(* the capability guards, the GPU and hardware getters, the canvas noise.  *)
(*                                                                         *)
(* Numbers.  A seed is a float of [0,1); the model keeps seeds on the grid *)
(* of tenths and writes the seed 0.4 as the integer 4.  Time is counted in *)
(* units of 100 ms, the grace period of the teardown handler.              *)
(* Strings are sequences of one-character strings.                         *)
(***************************************************************************)
EXTENDS Integers, Sequences, FiniteSets, TLC

\* ---------------------------------------------------------------- bounds
MaxTime == 3        \* the clock stops here
MaxApply == 2       \* apply() calls on one browser context
MaxSeed == 25       \* largest seed (in tenths) given to profile selection
MaxCatalog == 4     \* largest custom profile catalog
MaxDraws == 3       \* most values one page draws from one stream
MaxMathCalls == 2   \* most calls one page makes to the wrapped Math functions
MaxExports == 2     \* most canvas exports of one page
MaxPixelReads == 2  \* most getImageData calls of one page
MaxStack == 3       \* deepest nesting of calls before the engine throws a RangeError
MaxNowReads == 3    \* most performance.now() calls of one page

\* The page contexts that can be open at the same time.  A closed one can be
\* opened again as a new page, so any number of pages follow one another.
Tabs == {1, 2}
NullStr == <<"null">>       \* null where a string is expected (getItem of an absent key)
NullNum == -2               \* null where a number is expected (an option left unset)
NaN == -1                   \* the not-a-number result of parseInt / parseFloat
NoTimer == -3               \* no timer has been set
Undefined == [platform |-> "undefined"]   \* undefined where a profile is expected

\* Values Math.random() can return, in tenths: it ranges over [0,1).
RandomValues == {0, 4}

\* ------------------------------------------------------- number <-> string
DigitChars == <<"0", "1", "2", "3", "4", "5", "6", "7", "8", "9">>

IsDigit(c) == \E d \in 1..10 : DigitChars[d] = c

DigitVal(c) == (CHOOSE d \in 1..10 : DigitChars[d] = c) - 1

RECURSIVE NatToString(_)
\* Number.prototype.toString of a non-negative integer.
NatToString(n) ==
    IF n < 10 THEN <<DigitChars[n + 1]>>
    ELSE Append(NatToString(n \div 10), DigitChars[(n % 10) + 1])

\* Number.prototype.toString of a value in tenths (0.4 is "0.4", 1 is "1").
NumberToString(x) ==
    IF x % 10 = 0 THEN NatToString(x \div 10)
    ELSE NatToString(x \div 10) \o <<".", DigitChars[(x % 10) + 1]>>

RECURSIVE DigitsValue(_)
DigitsValue(s) ==
    IF s = <<>> THEN 0
    ELSE 10 * DigitsValue(SubSeq(s, 1, Len(s) - 1)) + DigitVal(s[Len(s)])

\* The longest prefix of s made of digits.
DigitPrefixLen(s) ==
    CHOOSE k \in 0..Len(s) :
        /\ \A i \in 1..k : IsDigit(s[i])
        /\ (k < Len(s) => ~IsDigit(s[k + 1]))

\* parseInt(s): the leading digits, NaN when there are none.
ParseInt(s) ==
    IF DigitPrefixLen(s) = 0 THEN NaN
    ELSE DigitsValue(SubSeq(s, 1, DigitPrefixLen(s)))

\* parseFloat(s), in tenths: integer part, then at most one fraction digit.
ParseFloat(s) ==
    IF DigitPrefixLen(s) = 0 THEN NaN
    ELSE LET k == DigitPrefixLen(s)
             whole == DigitsValue(SubSeq(s, 1, k))
         IN  IF k + 2 <= Len(s) /\ s[k + 1] = "." /\ IsDigit(s[k + 2])
             THEN 10 * whole + DigitVal(s[k + 2])
             ELSE 10 * whole

\* JavaScript truthiness of a number or null: 0, NaN and null are falsy.
TruthyNum(v) == v # 0 /\ v # NaN /\ v # NullNum

\* JavaScript truthiness of a string or null: "" and null are falsy.
TruthyStr(s) == s # <<>> /\ s # NullStr

\* a || b, for numbers
OrElse(a, b) == IF TruthyNum(a) THEN a ELSE b

\* ------------------------------------------------------------ profiles
DEFAULT_DEVICE_PROFILES ==
    << [platform |-> "Win32",
        screen |-> [width |-> 1920, height |-> 1080, colorDepth |-> 24],
        hardware |-> [cores |-> 4, memory |-> 8],
        gpu |-> [vendor |-> "Intel Inc.", renderer |-> "Intel(R) UHD Graphics 620"]],
       [platform |-> "Win32",
        screen |-> [width |-> 1920, height |-> 1080, colorDepth |-> 24],
        hardware |-> [cores |-> 8, memory |-> 16],
        gpu |-> [vendor |-> "NVIDIA Corporation", renderer |-> "NVIDIA GeForce GTX 1660 Ti"]],
       [platform |-> "Win32",
        screen |-> [width |-> 2560, height |-> 1440, colorDepth |-> 24],
        hardware |-> [cores |-> 12, memory |-> 32],
        gpu |-> [vendor |-> "NVIDIA Corporation", renderer |-> "NVIDIA GeForce RTX 3070"]] >>

\* A custom deviceProfiles option of n entries.
CustomProfiles(n) == [i \in 1..n |-> [platform |-> "Custom", id |-> i]]

\* arr[i] of a JavaScript array: undefined outside 0..length-1.
ArrayGet(arr, i) == IF i \in 0..(Len(arr) - 1) THEN arr[i + 1] ELSE Undefined

\* Math.floor(seed * n) for a seed in tenths.
FloorMul(seed, n) == (seed * n) \div 10

\* The same selection with the modulo dropped.
selectProfileNoMod(sessionSeed, profiles) ==
    ArrayGet(profiles, FloorMul(sessionSeed, Len(profiles)))

\* _selectProfile: profiles[Math.floor(seed * length) % length].
selectProfile(sessionSeed, profiles) ==
    LET index == FloorMul(sessionSeed, Len(profiles))
    IN  ArrayGet(profiles, index % Len(profiles))

\* getRandomProfile(seed); r is the value Math.random() returns.
getRandomProfile(seed, r) ==
    LET length == Len(DEFAULT_DEVICE_PROFILES)
        index == IF TruthyNum(seed) THEN FloorMul(seed, length) ELSE FloorMul(r, length)
    IN  ArrayGet(DEFAULT_DEVICE_PROFILES, index % length)

\* constructor: this.sessionSeed = options.sessionSeed || Math.random().
pluginSessionSeed(optionSeed, r) == OrElse(optionSeed, r)

\* ------------------------------------------------------------------ state
VARIABLES
    now,              \* Date.now(), in units of 100 ms
    options,          \* heartbeatInterval and sessionTimeout of the plugin options
    scripts,          \* init scripts registered on the browser context (addInitScript)
    storedSeed,       \* localStorage['__fp_cross_tab_seed']
    storedHeartbeat,  \* localStorage['__fp_heartbeat']
    pc,               \* where each page's injected script is
    env,              \* what the page's environment offers: storage, channel
    runsLeft,         \* init scripts the page has still to run
    CONFIG,           \* the configuration payload injected into the page
    seed,             \* getSessionSeed's variable seed (a string), while the script runs
    path,             \* the branch getSessionSeed took, while the script runs
    sessionSeed,      \* const sessionSeed = getSessionSeed()
    selectedProfile,  \* const selectedProfile = CONFIG.selectedProfile
    installed,        \* how many times each interceptor module wrapped its capability
    heartbeatTimer,   \* when the setInterval timer fires next
    unloadHandler,    \* whether the beforeunload listener is registered
    responder,        \* whether the page's ping responder channel is open
    closeChannel,     \* whether the teardown handler's channel is open
    closeTimer,       \* when the teardown handler's setTimeout fires
    hasOtherTabs,     \* the teardown handler's flag
    pings,            \* whether a ping waits in the responder channel's queue
    pongs,            \* whether a pong waits in the teardown channel's queue
    seedWriter,       \* history: the open page that wrote the stored seed, 0 if none
    liveAtStart,      \* history: the open pages whose seed was the stored one when
                      \* this page's getSessionSeed began
    solo,             \* history: no other page was open since this page's beforeunload
    selSeed,          \* profile selection on its own: the seed given
    selProfiles,      \* ... the catalog given
    selCall,          \* ... the function called
    selResult,        \* ... the profile returned
    streamSeed,       \* SeededRandom streams: the session seed the pages resolved
    phase,            \* ... how far each page's script has run
    mathCounter,      \* ... mathRandom.counter of each page
    rndCounter,       \* ... hardwareRandom.counter of each page
    rndOut,           \* ... the values hardwareRandom.next() returned, in order
    mathCalls,        \* ... the calls each page made to a wrapped Math function
    originalCalls,    \* ... the calls the wrappers made to the functions they replaced
    hwProfile,        \* ... the selectedProfile the pages' hardware getters use
    reads,            \* ... what each page read from devicePixelRatio and maxTouchPoints
    pageProfile,      \* one page's script: its selectedProfile
    pageObjects,      \* ... the optional browser objects the page has
    wrapped,          \* ... the objects and properties the script has replaced
    step,             \* ... the section of the script that runs next
    scriptThrew,      \* ... the script ended with an uncaught exception
    webglCounter,     \* ... webglRandom.counter
    lastRead,         \* ... the last value the page read, and what it asked for
    canvasSource,     \* one canvas: the channel value the page painted everywhere
    canvasData,       \* ... the canvas bitmap, one channel value per pixel
    canvasAlpha,      \* ... the alpha value of each pixel
    canvasCounter,    \* ... canvasRandom.counter
    exports,          \* ... the outputs of toDataURL, in order
    perfNative,       \* one page's clock: what the native performance.now last returned
    perfCounter,      \* ... perfRandom.counter
    perfOut,          \* ... the native and the reported value of every read, in order
    optSeed,          \* one plugin: options.sessionSeed as the caller gave it
    optCrossTab,      \* ... options.crossTabConsistency
    plugin,           \* ... this.sessionSeed and this.selectedProfile
    payload           \* ... configData as handed to addInitScript

vars == <<now, options, scripts, storedSeed, storedHeartbeat, pc, env, runsLeft, CONFIG,
          seed, path, sessionSeed, selectedProfile, installed, heartbeatTimer,
          unloadHandler, responder, closeChannel, closeTimer, hasOtherTabs, pings, pongs,
          seedWriter, liveAtStart, solo, selSeed, selProfiles, selCall, selResult,
          streamSeed, phase, mathCounter, rndCounter, rndOut,
          mathCalls, originalCalls, hwProfile, reads,
          pageProfile, pageObjects, wrapped, step, scriptThrew, webglCounter, lastRead,
          canvasSource, canvasData, canvasAlpha, canvasCounter, exports,
          perfNative, perfCounter, perfOut,
          optSeed, optCrossTab, plugin, payload>>

contextVars == <<options, scripts>>
storageVars == <<storedSeed, storedHeartbeat>>
scriptVars == <<env, runsLeft, CONFIG, seed, path, sessionSeed, selectedProfile, installed>>
timerVars == <<heartbeatTimer, unloadHandler>>
channelVars == <<responder, closeChannel, closeTimer, hasOtherTabs, pings, pongs>>
historyVars == <<seedWriter, liveAtStart, solo>>
selVars == <<selSeed, selProfiles, selCall, selResult>>
callVars == <<mathCounter, mathCalls, originalCalls>>
streamVars == <<streamSeed, phase, callVars, rndCounter, rndOut, hwProfile, reads>>
pageVars == <<pageProfile, pageObjects, wrapped, step, scriptThrew, webglCounter, lastRead>>
canvasVars == <<canvasSource, canvasData, canvasAlpha, canvasCounter, exports>>
pluginVars == <<optSeed, optCrossTab, plugin, payload>>
perfVars == <<perfNative, perfCounter, perfOut>>
unitVars == <<streamVars, pageVars, canvasVars, pluginVars, perfVars>>

\* The interceptor modules of the injected script.
Modules == {"canvas", "webgl", "audio", "hardware", "fonts", "math", "misc"}

\* What a page's environment can lack.
Envs == {"ok", "noStorage", "noChannel"}

\* The 100 ms of the teardown handler's setTimeout, in time units.
GracePeriod == 1

\* The plugin options the model runs with: heartbeatInterval < sessionTimeout, as in
\* the defaults (2000 and 5000 ms) and in src/api/index.js.
OptionChoices == {[heartbeatInterval |-> 2, sessionTimeout |-> 3]}

NoConfig == [sessionSeed |-> NullNum, selectedProfile |-> Undefined,
             crossTabConsistency |-> FALSE]

NoneInstalled == [m \in Modules |-> 0]

\* The page is inside the synchronous run of the injected script.
Busy(t) == pc[t] \in {"getSessionSeed", "checkActiveSession", "writeSeed",
                      "updateHeartbeat", "resolved", "profileSelected"}

\* The page exists and its event loop is idle.
Idle(t) == pc[t] \in {"installed", "threw", "unloading", "unloaded"}

\* The page has resolved its seed and has not begun to tear down.
SettledOpen(t) == pc[t] \in {"resolved", "profileSelected", "installed"}

InitPages ==
    /\ now = 0
    /\ options \in OptionChoices
    /\ storedSeed = NullStr
    /\ storedHeartbeat = NullStr
    /\ pc = [t \in Tabs |-> "closed"]
    /\ env = [t \in Tabs |-> "ok"]
    /\ runsLeft = [t \in Tabs |-> 0]
    /\ CONFIG = [t \in Tabs |-> NoConfig]
    /\ seed = [t \in Tabs |-> NullStr]
    /\ path = [t \in Tabs |-> "none"]
    /\ sessionSeed = [t \in Tabs |-> NullNum]
    /\ selectedProfile = [t \in Tabs |-> Undefined]
    /\ installed = [t \in Tabs |-> NoneInstalled]
    /\ heartbeatTimer = [t \in Tabs |-> NoTimer]
    /\ unloadHandler = [t \in Tabs |-> FALSE]
    /\ responder = [t \in Tabs |-> FALSE]
    /\ closeChannel = [t \in Tabs |-> FALSE]
    /\ closeTimer = [t \in Tabs |-> NoTimer]
    /\ hasOtherTabs = [t \in Tabs |-> FALSE]
    /\ pings = [t \in Tabs |-> FALSE]
    /\ pongs = [t \in Tabs |-> FALSE]
    /\ seedWriter = 0
    /\ liveAtStart = [t \in Tabs |-> {}]
    /\ solo = [t \in Tabs |-> FALSE]

InitNoSelection ==
    /\ selSeed = 0
    /\ selProfiles = CustomProfiles(1)
    /\ selCall = "none"
    /\ selResult = Undefined

InitNoCalls ==
    /\ mathCounter = [p \in Tabs |-> 0]
    /\ mathCalls = [p \in Tabs |-> 0]
    /\ originalCalls = [p \in Tabs |-> 0]

InitNoReads ==
    /\ rndCounter = [p \in Tabs |-> 0]
    /\ rndOut = [p \in Tabs |-> <<>>]
    /\ hwProfile = Undefined
    /\ reads = [p \in Tabs |-> <<>>]

InitNoStreams ==
    /\ streamSeed = 0
    /\ phase = [p \in Tabs |-> "start"]
    /\ InitNoCalls
    /\ InitNoReads

NoRead == [what |-> "none", debugInfo |-> FALSE, num |-> NullNum, str |-> <<>>]

InitNoPage ==
    /\ pageProfile = Undefined
    /\ pageObjects = {}
    /\ wrapped = {}
    /\ step = 1
    /\ scriptThrew = FALSE
    /\ webglCounter = 0
    /\ lastRead = NoRead

InitNoCanvas ==
    /\ canvasSource = 0
    /\ canvasData = <<>>
    /\ canvasAlpha = <<>>
    /\ canvasCounter = 0
    /\ exports = <<>>

InitNoPlugin ==
    /\ optSeed = NullNum
    /\ optCrossTab = TRUE
    /\ plugin = NoConfig
    /\ payload = NoConfig

InitNoPerf ==
    /\ perfNative = 0
    /\ perfCounter = 0
    /\ perfOut = <<>>

InitNoUnits ==
    /\ InitNoStreams
    /\ InitNoPage
    /\ InitNoCanvas
    /\ InitNoPlugin
    /\ InitNoPerf

\* The plugin has been applied once to the browser context (src/api/index.js).
Init ==
    /\ InitPages
    /\ scripts = 1
    /\ InitNoSelection
    /\ InitNoUnits

\* ------------------------------------------------- plugin and page creation
\* new PlaywrightAntiFingerprintPlugin(options) and injectionScript's configData.
configData(optionSeed, r, crossTab) ==
    LET s == pluginSessionSeed(optionSeed, r)
    IN  [sessionSeed |-> s,
         selectedProfile |-> selectProfile(s, DEFAULT_DEVICE_PROFILES),
         crossTabConsistency |-> crossTab]

\* apply(context): injectionScript registers one more init script on the context.
Apply ==
    /\ scripts < MaxApply
    /\ scripts' = scripts + 1
    /\ UNCHANGED <<now, options, storageVars, pc, scriptVars, timerVars, channelVars,
                   historyVars, selVars, unitVars>>

\* A page is created in a context the plugin was applied to: every registered init
\* script will run in it, with the payload of the plugin that registered it.  A page
\* that does not coordinate never touches storage or channel, so what its
\* environment lacks is left open only for a page that coordinates.
OpenPage(t) ==
    /\ pc[t] = "closed"
    /\ scripts >= 1
    /\ \E optionSeed \in RandomValues \cup {NullNum}, r \in RandomValues,
          crossTab \in BOOLEAN, e \in Envs :
          /\ crossTab \/ e = "ok"
          /\ CONFIG' = [CONFIG EXCEPT ![t] = configData(optionSeed, r, crossTab)]
          /\ env' = [env EXCEPT ![t] = e]
    /\ pc' = [pc EXCEPT ![t] = "getSessionSeed"]
    /\ runsLeft' = [runsLeft EXCEPT ![t] = scripts]
    /\ solo' = [u \in Tabs |-> solo[u] /\ u = t]
    /\ UNCHANGED <<now, contextVars, storageVars, seed, path, sessionSeed,
                   selectedProfile, installed, timerVars, channelVars, seedWriter,
                   liveAtStart, selVars, unitVars>>

\* Where the page goes when one init script ends (normally or by an exception):
\* to the next registered init script, or to rest.
AfterScript(t, rest) == IF runsLeft[t] > 1 THEN "getSessionSeed" ELSE rest

\* ------------------------------------------------------------ getSessionSeed
\* A getSessionSeed that never takes the early return.
crossTabNeverDisabled(t) == FALSE

\* if (!CONFIG.crossTabConsistency) return CONFIG.sessionSeed;
crossTabDisabled(t) == ~CONFIG[t].crossTabConsistency

ReturnProvidedSeed(t) ==
    /\ pc[t] = "getSessionSeed"
    /\ crossTabDisabled(t)
    /\ sessionSeed' = [sessionSeed EXCEPT ![t] = CONFIG[t].sessionSeed]
    /\ path' = [path EXCEPT ![t] = "provided"]
    /\ pc' = [pc EXCEPT ![t] = "resolved"]
    /\ UNCHANGED <<now, contextVars, storageVars, env, runsLeft, CONFIG, seed,
                   selectedProfile, installed, timerVars, channelVars, historyVars,
                   selVars, unitVars>>

\* let seed = localStorage.getItem(SEED_KEY); and the first half of the test
\* !seed || !checkActiveSession().  No try/catch surrounds it: when localStorage
\* throws, the exception leaves the injected script.
ReadSeed(t) ==
    /\ pc[t] = "getSessionSeed"
    /\ ~crossTabDisabled(t)
    /\ IF env[t] = "noStorage"
       THEN /\ pc' = [pc EXCEPT ![t] = AfterScript(t, "threw")]
            /\ runsLeft' = [runsLeft EXCEPT ![t] = runsLeft[t] - 1]
            /\ UNCHANGED <<seed, path, liveAtStart>>
       ELSE /\ seed' = [seed EXCEPT ![t] = storedSeed]
            /\ path' = [path EXCEPT ![t] = IF ~TruthyStr(storedSeed) THEN "absent"
                                           ELSE "none"]
            /\ pc' = [pc EXCEPT ![t] = IF ~TruthyStr(storedSeed) THEN "writeSeed"
                                       ELSE "checkActiveSession"]
            /\ runsLeft' = runsLeft
            /\ liveAtStart' = [liveAtStart EXCEPT ![t] =
                  {a \in Tabs \ {t} :
                      /\ SettledOpen(a)
                      /\ CONFIG[a].crossTabConsistency
                      /\ storedSeed = NumberToString(sessionSeed[a])
                      /\ storedHeartbeat # NullStr}]
    /\ UNCHANGED <<now, contextVars, storageVars, env, CONFIG, sessionSeed,
                   selectedProfile, installed, timerVars, channelVars, seedWriter, solo,
                   selVars, unitVars>>

\* checkActiveSession(): a heartbeat exists and is younger than SESSION_TIMEOUT.
checkActiveSession(lastHeartbeat, dateNow, SESSION_TIMEOUT) ==
    IF ~TruthyStr(lastHeartbeat) THEN FALSE
    ELSE LET stamp == ParseInt(lastHeartbeat)
         IN  stamp # NaN /\ dateNow - stamp < SESSION_TIMEOUT

\* A return statement that always takes the random value.
resolvedSeedRandom(seedString, r) == r

\* return parseFloat(seed) || Math.random(); r is what Math.random() returns.
resolvedSeed(seedString, r) == OrElse(ParseFloat(seedString), r)

\* The rest of getSessionSeed once the seed is settled, all of it local to the page:
\* setInterval(updateHeartbeat), addEventListener('beforeunload'), the responder
\* channel, and the return.  When BroadcastChannel is unavailable its constructor
\* throws after the timer and the listener have been set up.
FinishGetSessionSeed(t, seedString) ==
    /\ heartbeatTimer' = [heartbeatTimer EXCEPT ![t] = now + options.heartbeatInterval]
    /\ unloadHandler' = [unloadHandler EXCEPT ![t] = TRUE]
    /\ IF env[t] = "noChannel"
       THEN /\ pc' = [pc EXCEPT ![t] = AfterScript(t, "threw")]
            /\ runsLeft' = [runsLeft EXCEPT ![t] = runsLeft[t] - 1]
            /\ UNCHANGED <<responder, sessionSeed>>
       ELSE /\ responder' = [responder EXCEPT ![t] = TRUE]
            /\ \E r \in RandomValues :
                  sessionSeed' = [sessionSeed EXCEPT ![t] = resolvedSeed(seedString, r)]
            /\ pc' = [pc EXCEPT ![t] = "resolved"]
            /\ runsLeft' = runsLeft

\* A second half of the test that calls updateHeartbeat() on a live session too.
CheckActiveRefreshing(t) ==
    /\ pc[t] = "checkActiveSession"
    /\ IF checkActiveSession(storedHeartbeat, now, options.sessionTimeout)
       THEN /\ path' = [path EXCEPT ![t] = "reused"]
            /\ storedHeartbeat' = NatToString(now)
            /\ FinishGetSessionSeed(t, seed[t])
       ELSE /\ path' = [path EXCEPT ![t] = IF TruthyStr(storedHeartbeat) THEN "expired"
                                           ELSE "noHeartbeat"]
            /\ pc' = [pc EXCEPT ![t] = "writeSeed"]
            /\ UNCHANGED <<sessionSeed, runsLeft, timerVars, responder, storedHeartbeat>>
    /\ UNCHANGED <<now, contextVars, storedSeed, env, CONFIG, seed, selectedProfile,
                   installed, closeChannel, closeTimer, hasOtherTabs, pings, pongs,
                   historyVars, selVars, unitVars>>

\* The second half of the test !seed || !checkActiveSession(): on a live session the
\* stored seed is kept and getSessionSeed runs to its return.
CheckActive(t) ==
    /\ pc[t] = "checkActiveSession"
    /\ IF checkActiveSession(storedHeartbeat, now, options.sessionTimeout)
       THEN /\ path' = [path EXCEPT ![t] = "reused"]
            /\ FinishGetSessionSeed(t, seed[t])
       ELSE /\ path' = [path EXCEPT ![t] = IF TruthyStr(storedHeartbeat) THEN "expired"
                                           ELSE "noHeartbeat"]
            /\ pc' = [pc EXCEPT ![t] = "writeSeed"]
            /\ UNCHANGED <<sessionSeed, runsLeft, timerVars, responder>>
    /\ UNCHANGED <<now, contextVars, storageVars, env, CONFIG, seed, selectedProfile,
                   installed, closeChannel, closeTimer, hasOtherTabs, pings, pongs,
                   historyVars, selVars, unitVars>>

\* seed = CONFIG.sessionSeed.toString(); localStorage.setItem(SEED_KEY, seed);
WriteSeed(t) ==
    /\ pc[t] = "writeSeed"
    /\ seed' = [seed EXCEPT ![t] = NumberToString(CONFIG[t].sessionSeed)]
    /\ storedSeed' = NumberToString(CONFIG[t].sessionSeed)
    /\ pc' = [pc EXCEPT ![t] = "updateHeartbeat"]
    /\ seedWriter' = t
    /\ UNCHANGED <<now, contextVars, storedHeartbeat, env, runsLeft, CONFIG, path,
                   sessionSeed, selectedProfile, installed, timerVars, channelVars,
                   liveAtStart, solo, selVars, unitVars>>

\* updateHeartbeat() on the write path, and getSessionSeed runs to its return.
WriteHeartbeat(t) ==
    /\ pc[t] = "updateHeartbeat"
    /\ storedHeartbeat' = NatToString(now)
    /\ FinishGetSessionSeed(t, seed[t])
    /\ UNCHANGED <<now, contextVars, storedSeed, env, CONFIG, seed, path,
                   selectedProfile, installed, closeChannel, closeTimer, hasOtherTabs,
                   pings, pongs, historyVars, selVars, unitVars>>

\* ---------------------------------------------------- the rest of the script
\* const selectedProfile = CONFIG.selectedProfile;
SelectProfile(t) ==
    /\ pc[t] = "resolved"
    /\ selectedProfile' = [selectedProfile EXCEPT ![t] = CONFIG[t].selectedProfile]
    /\ pc' = [pc EXCEPT ![t] = "profileSelected"]
    /\ UNCHANGED <<now, contextVars, storageVars, env, runsLeft, CONFIG, seed, path,
                   sessionSeed, installed, timerVars, channelVars, historyVars, selVars, unitVars>>

\* protectCanvas ... battery: every module wraps its capability, unconditionally.
\* The script has run: its locals are gone.  Then the next registered init script,
\* if any, runs in the same page.
InstallInterceptors(t) ==
    /\ pc[t] = "profileSelected"
    /\ installed' = [installed EXCEPT ![t] = [m \in Modules |-> installed[t][m] + 1]]
    /\ runsLeft' = [runsLeft EXCEPT ![t] = runsLeft[t] - 1]
    /\ pc' = [pc EXCEPT ![t] = AfterScript(t, "installed")]
    /\ seed' = [seed EXCEPT ![t] = NullStr]
    /\ path' = [path EXCEPT ![t] = "none"]
    /\ liveAtStart' = [liveAtStart EXCEPT ![t] = {}]
    /\ UNCHANGED <<now, contextVars, storageVars, env, CONFIG, sessionSeed,
                   selectedProfile, timerVars, channelVars, seedWriter, solo, selVars, unitVars>>

\* ------------------------------------------------------- timers and teardown
\* setInterval(updateHeartbeat, HEARTBEAT_INTERVAL): one firing of the timer.
HeartbeatTick(t) ==
    /\ Idle(t)
    /\ heartbeatTimer[t] = now
    /\ storedHeartbeat' = NatToString(now)
    /\ heartbeatTimer' = [heartbeatTimer EXCEPT ![t] = now + options.heartbeatInterval]
    /\ UNCHANGED <<now, contextVars, storedSeed, pc, scriptVars, unloadHandler,
                   channelVars, historyVars, selVars, unitVars>>

\* The beforeunload listener: a new channel object, hasOtherTabs = false, a ping to
\* every other channel object of that name (the responder of every open page, the
\* one of this page included), and the 100 ms timer.  The channel guarantees no
\* delivery: the model keeps one waiting message per channel object, a further one
\* is lost.
BeforeUnload(t) ==
    /\ pc[t] = "installed"
    /\ unloadHandler[t]
    /\ closeChannel' = [closeChannel EXCEPT ![t] = TRUE]
    /\ hasOtherTabs' = [hasOtherTabs EXCEPT ![t] = FALSE]
    /\ pings' = [u \in Tabs |-> responder[u] \/ pings[u]]
    /\ closeTimer' = [closeTimer EXCEPT ![t] = now + GracePeriod]
    /\ pc' = [pc EXCEPT ![t] = "unloading"]
    /\ solo' = [solo EXCEPT ![t] = \A u \in Tabs \ {t} : pc[u] = "closed"]
    /\ UNCHANGED <<now, contextVars, storageVars, scriptVars, timerVars, responder,
                   pongs, seedWriter, liveAtStart, selVars, unitVars>>

\* channel.onmessage of the responder: a ping is answered by a pong, which goes to
\* every other channel object of that name; only teardown channels listen for it.
RespondToPing(u) ==
    /\ Idle(u)
    /\ responder[u]
    /\ pings[u]
    /\ pings' = [pings EXCEPT ![u] = FALSE]
    /\ pongs' = [v \in Tabs |-> closeChannel[v] \/ pongs[v]]
    /\ UNCHANGED <<now, contextVars, storageVars, pc, scriptVars, timerVars, responder,
                   closeChannel, closeTimer, hasOtherTabs, historyVars, selVars, unitVars>>

\* A teardown handler that answers a pong with a further ping.
ReceivePongAndProbe(t) ==
    /\ Idle(t)
    /\ closeChannel[t]
    /\ pongs[t]
    /\ pongs' = [pongs EXCEPT ![t] = FALSE]
    /\ hasOtherTabs' = [hasOtherTabs EXCEPT ![t] = TRUE]
    /\ pings' = [u \in Tabs |-> responder[u] \/ pings[u]]
    /\ UNCHANGED <<now, contextVars, storageVars, pc, scriptVars, timerVars, responder,
                   closeChannel, closeTimer, historyVars, selVars, unitVars>>

\* channel.onmessage of the teardown handler: a pong sets hasOtherTabs.
ReceivePong(t) ==
    /\ Idle(t)
    /\ closeChannel[t]
    /\ pongs[t]
    /\ pongs' = [pongs EXCEPT ![t] = FALSE]
    /\ hasOtherTabs' = [hasOtherTabs EXCEPT ![t] = TRUE]
    /\ UNCHANGED <<now, contextVars, storageVars, pc, scriptVars, timerVars, responder,
                   closeChannel, closeTimer, pings, historyVars, selVars, unitVars>>

\* A teardown timer that clears the session whatever was heard.
shouldClearSessionAlways(t) == TRUE

\* if (!hasOtherTabs): the test of the teardown timer's callback.
shouldClearSession(t) == ~hasOtherTabs[t]

\* The setTimeout callback of the teardown handler, 100 ms after beforeunload.
TeardownTimeout(t) ==
    /\ Idle(t)
    /\ closeTimer[t] = now
    /\ IF shouldClearSession(t)
       THEN storedSeed' = NullStr /\ storedHeartbeat' = NullStr /\ seedWriter' = 0
       ELSE UNCHANGED <<storageVars, seedWriter>>
    /\ closeChannel' = [closeChannel EXCEPT ![t] = FALSE]
    /\ closeTimer' = [closeTimer EXCEPT ![t] = NoTimer]
    /\ pongs' = [pongs EXCEPT ![t] = FALSE]
    /\ pc' = [pc EXCEPT ![t] = "unloaded"]
    /\ solo' = [solo EXCEPT ![t] = FALSE]
    /\ UNCHANGED <<now, contextVars, scriptVars, timerVars, responder, hasOtherTabs,
                   pings, liveAtStart, selVars, unitVars>>

\* The page context is destroyed (the tab is gone, or the browser was killed): its
\* timers, listeners and channels go with it; localStorage stays.
DestroyPage(t) ==
    /\ Idle(t)
    /\ pc' = [pc EXCEPT ![t] = "closed"]
    /\ env' = [env EXCEPT ![t] = "ok"]
    /\ runsLeft' = [runsLeft EXCEPT ![t] = 0]
    /\ CONFIG' = [CONFIG EXCEPT ![t] = NoConfig]
    /\ seed' = [seed EXCEPT ![t] = NullStr]
    /\ path' = [path EXCEPT ![t] = "none"]
    /\ sessionSeed' = [sessionSeed EXCEPT ![t] = NullNum]
    /\ selectedProfile' = [selectedProfile EXCEPT ![t] = Undefined]
    /\ installed' = [installed EXCEPT ![t] = NoneInstalled]
    /\ heartbeatTimer' = [heartbeatTimer EXCEPT ![t] = NoTimer]
    /\ unloadHandler' = [unloadHandler EXCEPT ![t] = FALSE]
    /\ responder' = [responder EXCEPT ![t] = FALSE]
    /\ closeChannel' = [closeChannel EXCEPT ![t] = FALSE]
    /\ closeTimer' = [closeTimer EXCEPT ![t] = NoTimer]
    /\ hasOtherTabs' = [hasOtherTabs EXCEPT ![t] = FALSE]
    /\ pings' = [pings EXCEPT ![t] = FALSE]
    /\ pongs' = [pongs EXCEPT ![t] = FALSE]
    /\ seedWriter' = IF seedWriter = t THEN 0 ELSE seedWriter
    /\ liveAtStart' = [u \in Tabs |-> IF u = t THEN {} ELSE liveAtStart[u] \ {t}]
    /\ solo' = [solo EXCEPT ![t] = FALSE]
    /\ UNCHANGED <<now, contextVars, storageVars, selVars, unitVars>>

\* Time passes.  The injected script runs to completion within one instant, and a
\* timer fires at the instant it is due.
Tick ==
    /\ now < MaxTime
    /\ \A t \in Tabs :
          /\ ~Busy(t)
          /\ heartbeatTimer[t] # now
          /\ closeTimer[t] # now
    /\ now' = now + 1
    /\ UNCHANGED <<contextVars, storageVars, pc, scriptVars, timerVars, channelVars,
                   historyVars, selVars, unitVars>>

Next ==
    \/ Tick
    \/ \E t \in Tabs : OpenPage(t)
    \/ \E t \in Tabs : ReturnProvidedSeed(t)
    \/ \E t \in Tabs : ReadSeed(t)
    \/ \E t \in Tabs : CheckActive(t)
    \/ \E t \in Tabs : WriteSeed(t)
    \/ \E t \in Tabs : WriteHeartbeat(t)
    \/ \E t \in Tabs : SelectProfile(t)
    \/ \E t \in Tabs : InstallInterceptors(t)
    \/ \E t \in Tabs : HeartbeatTick(t)
    \/ \E t \in Tabs : BeforeUnload(t)
    \/ \E t \in Tabs : RespondToPing(t)
    \/ \E t \in Tabs : ReceivePong(t)
    \/ \E t \in Tabs : TeardownTimeout(t)
    \/ \E t \in Tabs : DestroyPage(t)

\* One browser context with the plugin applied once, any number of pages over time.
Spec == Init /\ [][Next]_vars

\* ------------------------------------------- apply() and page initialisation
\* apply() is called any number of times (up to MaxApply) and pages are created and
\* run their init scripts; timers and teardown play no part in what gets installed.
InitApply ==
    /\ InitPages
    /\ scripts = 0
    /\ InitNoSelection
    /\ InitNoUnits

NextApply ==
    \/ Apply
    \/ \E t \in Tabs : OpenPage(t)
    \/ \E t \in Tabs : ReturnProvidedSeed(t)
    \/ \E t \in Tabs : ReadSeed(t)
    \/ \E t \in Tabs : CheckActive(t)
    \/ \E t \in Tabs : WriteSeed(t)
    \/ \E t \in Tabs : WriteHeartbeat(t)
    \/ \E t \in Tabs : SelectProfile(t)
    \/ \E t \in Tabs : InstallInterceptors(t)
    \/ \E t \in Tabs : DestroyPage(t)

SpecApply == InitApply /\ [][NextApply]_vars

\* ------------------------------------------------ two pages opening together
\* Two pages have just been created in contexts whose plugins carry the seeds
\* of RaceSeeds, with cross-tab consistency enabled and nothing stored; they
\* run their scripts and their heartbeat timers, and neither is closed.
RaceSeeds == {4, 7}

InitRace ==
    /\ now = 0
    /\ options \in OptionChoices
    /\ scripts = 1
    /\ storedSeed = NullStr
    /\ storedHeartbeat = NullStr
    /\ pc = [t \in Tabs |-> "getSessionSeed"]
    /\ env = [t \in Tabs |-> "ok"]
    /\ runsLeft = [t \in Tabs |-> 1]
    /\ CONFIG \in [Tabs -> {configData(s, s, TRUE) : s \in RaceSeeds}]
    /\ seed = [t \in Tabs |-> NullStr]
    /\ path = [t \in Tabs |-> "none"]
    /\ sessionSeed = [t \in Tabs |-> NullNum]
    /\ selectedProfile = [t \in Tabs |-> Undefined]
    /\ installed = [t \in Tabs |-> NoneInstalled]
    /\ heartbeatTimer = [t \in Tabs |-> NoTimer]
    /\ unloadHandler = [t \in Tabs |-> FALSE]
    /\ responder = [t \in Tabs |-> FALSE]
    /\ closeChannel = [t \in Tabs |-> FALSE]
    /\ closeTimer = [t \in Tabs |-> NoTimer]
    /\ hasOtherTabs = [t \in Tabs |-> FALSE]
    /\ pings = [t \in Tabs |-> FALSE]
    /\ pongs = [t \in Tabs |-> FALSE]
    /\ seedWriter = 0
    /\ liveAtStart = [t \in Tabs |-> {}]
    /\ solo = [t \in Tabs |-> FALSE]
    /\ InitNoSelection
    /\ InitNoUnits

NextRace ==
    \/ Tick
    \/ \E t \in Tabs : ReadSeed(t)
    \/ \E t \in Tabs : CheckActive(t)
    \/ \E t \in Tabs : WriteSeed(t)
    \/ \E t \in Tabs : WriteHeartbeat(t)
    \/ \E t \in Tabs : SelectProfile(t)
    \/ \E t \in Tabs : InstallInterceptors(t)
    \/ \E t \in Tabs : HeartbeatTick(t)

SpecRace == InitRace /\ [][NextRace]_vars

\* --------------------------------------------------- the last tabs tear down
\* Two tabs share a live session: the first wrote the seed, the second reused
\* it, both have run their script to its end.  No further tab is opened and
\* neither page is destroyed before its teardown timer has fired.
SharedSession ==
    /\ options \in OptionChoices
    /\ scripts = 1
    /\ CONFIG \in [Tabs -> {configData(s, s, TRUE) : s \in RaceSeeds}]
    /\ storedSeed = NumberToString(CONFIG[1].sessionSeed)
    /\ storedHeartbeat = NatToString(now)
    /\ pc = [t \in Tabs |-> "installed"]
    /\ env = [t \in Tabs |-> "ok"]
    /\ runsLeft = [t \in Tabs |-> 0]
    /\ seed = [t \in Tabs |-> NullStr]
    /\ path = [t \in Tabs |-> "none"]
    /\ sessionSeed = [t \in Tabs |-> CONFIG[1].sessionSeed]
    /\ selectedProfile = [t \in Tabs |-> CONFIG[t].selectedProfile]
    /\ installed = [t \in Tabs |-> [m \in Modules |-> 1]]
    /\ heartbeatTimer = [t \in Tabs |-> now + options.heartbeatInterval]
    /\ unloadHandler = [t \in Tabs |-> TRUE]
    /\ responder = [t \in Tabs |-> TRUE]
    /\ closeChannel = [t \in Tabs |-> FALSE]
    /\ closeTimer = [t \in Tabs |-> NoTimer]
    /\ hasOtherTabs = [t \in Tabs |-> FALSE]
    /\ pings = [t \in Tabs |-> FALSE]
    /\ pongs = [t \in Tabs |-> FALSE]
    /\ seedWriter = 1
    /\ liveAtStart = [t \in Tabs |-> {}]
    /\ solo = [t \in Tabs |-> FALSE]

InitTeardown ==
    /\ now = 0
    /\ SharedSession
    /\ InitNoSelection
    /\ InitNoUnits

NextTeardown ==
    \/ Tick
    \/ \E t \in Tabs : HeartbeatTick(t)
    \/ \E t \in Tabs : BeforeUnload(t)
    \/ \E t \in Tabs : RespondToPing(t)
    \/ \E t \in Tabs : ReceivePong(t)
    \/ \E t \in Tabs : TeardownTimeout(t)

SpecTeardown == InitTeardown /\ [][NextTeardown]_vars

\* ------------------------------------------------ profile selection on its own
InitSelect ==
    /\ InitPages
    /\ scripts = 1
    /\ selSeed \in 0..MaxSeed
    /\ selProfiles \in {CustomProfiles(n) : n \in 1..MaxCatalog}
    /\ selCall = "none"
    /\ selResult = Undefined
    /\ InitNoUnits

\* plugin._selectProfile() with options.deviceProfiles = selProfiles.
CallSelectProfile ==
    /\ selCall' = "selectProfile"
    /\ selResult' = selectProfile(selSeed, selProfiles)
    /\ UNCHANGED <<now, contextVars, storageVars, pc, scriptVars, timerVars,
                   channelVars, historyVars, selSeed, selProfiles, unitVars>>

\* getRandomProfile(selSeed), which always draws from the default catalog.
CallGetRandomProfile ==
    /\ selCall' = "getRandomProfile"
    /\ \E r \in RandomValues : selResult' = getRandomProfile(selSeed, r)
    /\ UNCHANGED <<now, contextVars, storageVars, pc, scriptVars, timerVars,
                   channelVars, historyVars, selSeed, selProfiles, unitVars>>

NextSelect == CallSelectProfile \/ CallGetRandomProfile

SpecSelect == InitSelect /\ [][NextSelect]_vars

\* ============================================== the seeded random streams
\* Values of next() lie in [0, 1); the model keeps them on a grid of
\* 1/Resolution, one grid step being the smallest difference a page can see.
Resolution == 100

\* Math.sin(a) * 10000 modulo 1, for an argument a given in tenths: a fixed
\* function of its argument, spread over the grid.
originalSin(a) == (37 * a + 11) % Resolution

\* float(min, max) of a stream whose next() returned v.
Float(v, min, max) == min + (v * (max - min)) \div Resolution

\* The seed of `new SeededRandom(sessionSeed * k)`, in tenths.
StreamSeed(s, k) == s * k

\* MathSeededRandom.next(): the counter is c after the increment; it calls the
\* saved originalSin.
MathNext(s, c) == originalSin(StreamSeed(s, 7) * c + 10 * c)

\* The 1e-15 of the wrapped Math functions, in grid steps of x.
MathNoise == 2

\* What the wrapped Math.sin adds to its result when mathRandom.counter is c
\* after the draw.
wrappedSinNoise(s, c) == Float(MathNext(s, c), 0 - MathNoise, MathNoise)

\* SeededRandom.next() of the stream with seed multiplier k: the counter is c
\* after the increment; Math.sin is the global one, which is the wrapper once
\* the Math protection has run (isWrapped), with mathRandom.counter mc before.
SeededNext(s, k, c, isWrapped, mc) ==
    LET a == StreamSeed(s, k) * c + 10 * c
    IN  IF isWrapped
        THEN (originalSin(a) + wrappedSinNoise(s, mc + 1)) % Resolution
        ELSE originalSin(a)

\* this.counter++ of SeededRandom.next() and MathSeededRandom.next().  A mutant
\* that starts over instead is resetCounter.
resetCounter(c) == 0
nextCounter(c) == c + 1

\* The sine MathSeededRandom.next() calls: the constant originalSin, saved
\* before any wrapper is put in place.  A mutant that names the global Math.sin,
\* which is the wrapper by the time of the first call, is globalSin.
globalSin == "Math.sin"
mathSin == "originalSin"

\* How many times a wrapper is entered by one call of a wrapped Math function:
\* once, and once more for every wrapped function the noise computation calls,
\* until the call stack (budget) is used up.
RECURSIVE wrapperEntries(_)
wrapperEntries(budget) ==
    IF budget = 0 THEN 0
    ELSE 1 + (IF mathSin = "Math.sin" THEN wrapperEntries(budget - 1) ELSE 0)

\* n calls by page p of a wrapped Math function: each entry of a wrapper calls
\* `original` once and draws one value from mathRandom.
WrappedCalls(p, n) ==
    /\ mathCalls' = [mathCalls EXCEPT ![p] = @ + n]
    /\ originalCalls' = [originalCalls EXCEPT ![p] = @ + n * wrapperEntries(MaxStack)]
    /\ mathCounter' = [mathCounter EXCEPT ![p] = @ + n * wrapperEntries(MaxStack)]

\* int(min, max) and choice(array) of a stream whose next() returned v.
IntOf(v, min, max) == Float(v, min, max + 1)
Choice(array, v) == array[IntOf(v, 0, Len(array) - 1) + 1]

\* The getter of window.devicePixelRatio, in hundredths, and the getter of
\* navigator.maxTouchPoints; v is what hardwareRandom.next() returns if asked.
devicePixelRatio(profile, v) ==
    IF profile.screen.width > 1920 THEN 200 ELSE 100 + Float(v, 0, 25)

maxTouchPoints(profile, v) ==
    IF profile.platform = "MacIntel" THEN 0 ELSE Choice(<<0, 1, 5, 10>>, v)

\* Whether the getter of prop draws from hardwareRandom.
Draws(profile, prop) ==
    IF prop = "devicePixelRatio" THEN ~(profile.screen.width > 1920)
    ELSE ~(profile.platform = "MacIntel")

DrawingProps == {"devicePixelRatio", "maxTouchPoints"}

\* A profile a caller hands in with options.deviceProfiles.
MacProfile ==
    [platform |-> "MacIntel",
     hardware |-> [cores |-> 8, memory |-> 16],
     screen |-> [width |-> 1440, height |-> 900, colorDepth |-> 24],
     gpu |-> [vendor |-> "Apple", renderer |-> "M1"]]

\* The page's script and its later calls, for hardwareRandom (multiplier 5):
\* one draw while protectHardware runs, then the Math wrappers are put in
\* place, then draws on every read of devicePixelRatio or maxTouchPoints.
StreamSeeds == {4, 7}
StreamProfiles ==
    {DEFAULT_DEVICE_PROFILES[i] : i \in 1..Len(DEFAULT_DEVICE_PROFILES)} \cup {MacProfile}

InitStreams ==
    /\ InitPages
    /\ scripts = 1
    /\ InitNoSelection
    /\ streamSeed \in StreamSeeds
    /\ phase = [p \in Tabs |-> "start"]
    /\ InitNoCalls
    /\ rndCounter = [p \in Tabs |-> 0]
    /\ rndOut = [p \in Tabs |-> <<>>]
    /\ hwProfile \in StreamProfiles
    /\ reads = [p \in Tabs |-> <<>>]
    /\ InitNoPage
    /\ InitNoCanvas
    /\ InitNoPlugin
    /\ InitNoPerf

mainVars == <<now, contextVars, storageVars, pc, scriptVars, timerVars, channelVars,
              historyVars, selVars>>

\* next() of page p's hardwareRandom.
Draw(p) ==
    /\ rndCounter' = [rndCounter EXCEPT ![p] = nextCounter(@)]
    /\ rndOut' = [rndOut EXCEPT ![p] =
           Append(@, SeededNext(streamSeed, 5, nextCounter(rndCounter[p]),
                                phase[p] = "ready", mathCounter[p]))]
    /\ IF phase[p] = "ready" THEN WrappedCalls(p, 1) ELSE UNCHANGED callVars

\* protectHardware: screenInfo.availHeight draws once.
InstallDraw(p) ==
    /\ phase[p] = "start"
    /\ Draw(p)
    /\ phase' = [phase EXCEPT ![p] = "hardware"]
    /\ UNCHANGED <<mainVars, perfVars, pageVars, canvasVars, pluginVars, streamSeed, hwProfile, reads>>

\* mathFunctions.forEach: Math[funcName] is replaced by the wrapper.
WrapMath(p) ==
    /\ phase[p] = "hardware"
    /\ phase' = [phase EXCEPT ![p] = "ready"]
    /\ UNCHANGED <<mainVars, perfVars, pageVars, canvasVars, pluginVars, streamSeed, callVars,
                   rndCounter, rndOut, hwProfile, reads>>

\* The page calls a wrapped Math function.
CallMath(p) ==
    /\ phase[p] = "ready"
    /\ mathCalls[p] < MaxMathCalls
    /\ WrappedCalls(p, 1)
    /\ UNCHANGED <<mainVars, perfVars, pageVars, canvasVars, pluginVars, streamSeed, phase,
                   rndCounter, rndOut, hwProfile, reads>>

\* The page reads devicePixelRatio or maxTouchPoints.
CallNext(p, prop) ==
    /\ phase[p] = "ready"
    /\ Len(reads[p]) < MaxDraws - 1
    /\ LET v == SeededNext(streamSeed, 5, nextCounter(rndCounter[p]), TRUE, mathCounter[p])
           value == IF prop = "devicePixelRatio" THEN devicePixelRatio(hwProfile, v)
                    ELSE maxTouchPoints(hwProfile, v)
       IN  reads' = [reads EXCEPT ![p] = Append(@, [prop |-> prop, value |-> value])]
    /\ IF Draws(hwProfile, prop) THEN Draw(p)
       ELSE UNCHANGED <<callVars, rndCounter, rndOut>>
    /\ UNCHANGED <<mainVars, perfVars, pageVars, canvasVars, pluginVars, streamSeed, phase, hwProfile>>

NextStreams ==
    \E p \in Tabs :
        \/ InstallDraw(p)
        \/ WrapMath(p)
        \/ CallMath(p)
        \/ \E prop \in DrawingProps : CallNext(p, prop)

SpecStreams == InitStreams /\ [][NextStreams]_vars

\* ================================================ one page's interceptors
\* The sections of the injected script, in source order.
ScriptOrder ==
    << "automation", "canvas", "webgl", "audio", "hardware", "fonts", "navigator",
       "webrtc", "math", "plugins", "performance", "battery" >>

Finished == step > Len(ScriptOrder)

\* Browser objects a page may lack.
PermissionsApi == {"permissions.query"}
WebGLClasses == {"WebGLRenderingContext", "WebGL2RenderingContext"}
AudioClasses == {"AudioContext", "webkitAudioContext", "OfflineAudioContext"}
PeerConnections == {"RTCPeerConnection", "webkitRTCPeerConnection", "mozRTCPeerConnection"}
BatteryApi == {"getBattery"}
OptionalObjects ==
    PermissionsApi \cup WebGLClasses \cup AudioClasses \cup PeerConnections
        \cup BatteryApi \cup {"deviceMemory"}

\* What each section replaces.
Targets(section) ==
    CASE section = "automation" -> {"webdriver"} \cup PermissionsApi
      [] section = "canvas" -> {"HTMLCanvasElement", "CanvasRenderingContext2D"}
      [] section = "webgl" -> WebGLClasses
      [] section = "audio" -> AudioClasses
      [] section = "hardware" ->
             {"screen", "devicePixelRatio", "hardwareConcurrency", "deviceMemory",
              "maxTouchPoints"}
      [] section = "fonts" -> {"Element", "HTMLElement"}
      [] section = "navigator" -> {"platform", "languages", "language"}
      [] section = "webrtc" -> PeerConnections
      [] section = "math" -> {"Math"}
      [] section = "plugins" -> {"plugins", "mimeTypes"}
      [] section = "performance" -> {"performance.now"}
      [] section = "battery" -> BatteryApi

AllTargets == UNION {Targets(ScriptOrder[k]) : k \in 1..Len(ScriptOrder)}

\* The page has object o: every page has the objects that are not optional.
Present(o) == o \notin OptionalObjects \/ o \in pageObjects

\* A script that tests for nothing before it touches it.
neverGuarded(o) == FALSE

\* The script tests for o before it touches it: `if (window[name])`,
\* `if (navigator.getBattery)`, `if ('deviceMemory' in navigator)`, ...
isGuarded(o) == o \in OptionalObjects

\* One section of the script runs: a guarded object is replaced when the page
\* has it; touching an absent object without a guard throws and ends the script.
RunSection(k) ==
    /\ step = k
    /\ ~scriptThrew
    /\ k <= Len(ScriptOrder)
    /\ LET ts == Targets(ScriptOrder[k])
       IN  IF \E o \in ts : ~Present(o) /\ ~isGuarded(o)
           THEN /\ scriptThrew' = TRUE
                /\ UNCHANGED <<wrapped, step>>
           ELSE /\ wrapped' = wrapped \cup {o \in ts : Present(o)}
                /\ step' = k + 1
                /\ UNCHANGED scriptThrew
    /\ UNCHANGED <<mainVars, perfVars, streamVars, canvasVars, pluginVars, pageProfile, pageObjects, webglCounter, lastRead>>

\* The value of a browser property the script did not replace, and of a
\* property the page does not have.
NativeNum == 0 - 4
UndefinedNum == 0 - 5
NativeStr == <<"native">>

\* A gpuInfo that passes the browser's own strings on.
nativeGpuInfo(profile) == [vendor |-> NativeStr, renderer |-> NativeStr]

\* const gpuInfo = { vendor, renderer: 'ANGLE (' + ... + ' Direct3D11 vs_5_0 ps_5_0)' }
gpuInfo(profile) ==
    [vendor |-> <<profile.gpu.vendor>>,
     renderer |-> <<"ANGLE (", profile.gpu.renderer, " Direct3D11 vs_5_0 ps_5_0)">>]

\* getParameter(37445 | 37446) on a context of class ctx.
getParameter(profile, ctx, param, debugInfo) ==
    IF ctx \in wrapped /\ debugInfo
    THEN IF param = "vendor" THEN gpuInfo(profile).vendor ELSE gpuInfo(profile).renderer
    ELSE NativeStr

\* The page asks a graphics context for the unmasked vendor or renderer.
QueryGpu(ctx, param, debugInfo) ==
    /\ Finished \/ scriptThrew
    /\ ctx \in pageObjects
    /\ lastRead' = [what |-> param, debugInfo |-> debugInfo, num |-> NullNum,
                    str |-> getParameter(pageProfile, ctx, param, debugInfo)]
    /\ UNCHANGED <<mainVars, perfVars, streamVars, canvasVars, pluginVars, pageProfile, pageObjects, wrapped, step,
                   scriptThrew, webglCounter>>

\* getShaderPrecisionFormat / getSupportedExtensions draw from webglRandom.
DrawWebgl ==
    /\ Finished
    /\ wrapped \cap WebGLClasses # {}
    /\ webglCounter < MaxDraws
    /\ webglCounter' = webglCounter + 1
    /\ UNCHANGED <<mainVars, perfVars, streamVars, canvasVars, pluginVars, pageProfile, pageObjects, wrapped, step,
                   scriptThrew, lastRead>>

HardwareProps == {"hardwareConcurrency", "deviceMemory", "width", "height", "colorDepth"}

\* The object whose replacement serves property prop.
Holder(prop) == IF prop \in {"width", "height", "colorDepth"} THEN "screen" ELSE prop

\* Getters that pass the browser's own value on.
nativeValue(profile, prop) == NativeNum

\* The getters protectHardware defines.
profileValue(profile, prop) ==
    CASE prop = "hardwareConcurrency" -> profile.hardware.cores
      [] prop = "deviceMemory" -> profile.hardware.memory
      [] prop = "width" -> profile.screen.width
      [] prop = "height" -> profile.screen.height
      [] prop = "colorDepth" -> profile.screen.colorDepth

\* The page reads navigator.hardwareConcurrency, navigator.deviceMemory or a
\* screen property.
ReadHardware(prop) ==
    /\ Finished \/ scriptThrew
    /\ lastRead' = [what |-> prop, debugInfo |-> FALSE, str |-> <<>>,
                    num |-> IF Holder(prop) \in wrapped THEN profileValue(pageProfile, prop)
                            ELSE IF Present(Holder(prop)) THEN NativeNum
                            ELSE UndefinedNum]
    /\ UNCHANGED <<mainVars, perfVars, streamVars, canvasVars, pluginVars, pageProfile, pageObjects, wrapped, step,
                   scriptThrew, webglCounter>>

InitPage ==
    /\ InitPages
    /\ scripts = 1
    /\ InitNoSelection
    /\ InitNoStreams
    /\ pageProfile \in {DEFAULT_DEVICE_PROFILES[i] : i \in 1..Len(DEFAULT_DEVICE_PROFILES)}
    /\ pageObjects \in SUBSET OptionalObjects
    /\ wrapped = {}
    /\ step = 1
    /\ scriptThrew = FALSE
    /\ webglCounter = 0
    /\ lastRead = NoRead
    /\ InitNoCanvas
    /\ InitNoPlugin
    /\ InitNoPerf

NextPage ==
    \/ \E k \in 1..Len(ScriptOrder) : RunSection(k)
    \/ \E ctx \in WebGLClasses, param \in {"vendor", "renderer"}, d \in BOOLEAN :
           QueryGpu(ctx, param, d)
    \/ DrawWebgl
    \/ \E prop \in HardwareProps : ReadHardware(prop)

SpecPage == InitPage /\ [][NextPage]_vars

\* ======================================================= one page's canvas
\* Values with a fraction are kept in steps of 1/Resolution.
Min(a, b) == IF a < b THEN a ELSE b
Max(a, b) == IF a > b THEN a ELSE b

\* Storing x (in steps of 1/Resolution) into a Uint8ClampedArray: clamped to
\* [0, 255] and rounded to the nearest integer, a tie going to the even one.
ToUint8Clamp(x) ==
    LET c == Min(255 * Resolution, Max(0, x))
        f == c \div Resolution
        r == c % Resolution
    IN  IF 2 * r > Resolution THEN f + 1
        ELSE IF 2 * r < Resolution THEN f
        ELSE IF f % 2 = 0 THEN f ELSE f + 1

\* canvasRandom.float(-0.5, 0.5) of the draw that makes the counter c, in steps
\* of 1/Resolution; the Math functions are wrapped by the time a page calls.
canvasNoise(s, c, mc) ==
    Float(SeededNext(s, 2, c, TRUE, mc), 0 - Resolution \div 2, Resolution \div 2)

\* The pixels among the first j of a bitmap that pass `data[i + 3] > 0`.
RECURSIVE OpaquePixels(_, _)
OpaquePixels(alpha, j) ==
    IF j = 0 THEN 0
    ELSE OpaquePixels(alpha, j - 1) + (IF alpha[j] > 0 THEN 1 ELSE 0)

\* injectNoise over the pixels of data (the three colour channels equal): a
\* pixel with alpha > 0 takes the next draw, one draw for its three channels,
\* and data[i] = Math.min(255, Math.max(0, data[i] + noise)) is kept as the
\* array stores it; a pixel with alpha 0 is skipped.
injectNoise(data, alpha, s, c, mc) ==
    [j \in 1..Len(data) |->
        IF alpha[j] > 0
        THEN ToUint8Clamp(Min(255 * Resolution,
                 Max(0, data[j] * Resolution
                        + canvasNoise(s, c + OpaquePixels(alpha, j),
                                      mc + OpaquePixels(alpha, j) - 1))))
        ELSE data[j]]

\* The draws one pass of injectNoise makes.
NoiseDraws(alpha) == OpaquePixels(alpha, Len(alpha))

NumPixels == 2
SourceValues == {0, 100, 101, 255}
AlphaValues == {0, 255}

InitCanvas ==
    /\ InitPages
    /\ scripts = 1
    /\ InitNoSelection
    /\ InitNoPage
    /\ streamSeed \in StreamSeeds
    /\ phase = [p \in Tabs |-> "ready"]
    /\ InitNoCalls
    /\ InitNoReads
    /\ canvasSource \in SourceValues
    /\ canvasData = [j \in 1..NumPixels |-> canvasSource]
    /\ canvasAlpha \in [1..NumPixels -> AlphaValues]
    /\ canvasCounter = 0
    /\ exports = <<>>
    /\ InitNoPlugin
    /\ InitNoPerf

\* canvas.toDataURL(): read the bitmap, inject noise, write it back, encode.
\* The encoding is lossless, so the output is told by the bitmap it encodes.
ToDataURL ==
    /\ Len(exports) < MaxExports
    /\ LET noisyData == injectNoise(canvasData, canvasAlpha, streamSeed, canvasCounter,
                                    mathCounter[1])
       IN  /\ canvasData' = noisyData
           /\ exports' = Append(exports, noisyData)
    /\ canvasCounter' = canvasCounter + NoiseDraws(canvasAlpha)
    /\ WrappedCalls(1, NoiseDraws(canvasAlpha))
    /\ UNCHANGED <<mainVars, perfVars, pageVars, pluginVars, streamSeed, phase, rndCounter, rndOut,
                   hwProfile, reads, canvasSource, canvasAlpha>>

\* context.getImageData(): the noise goes into the copy handed to the page.
GetImageData ==
    /\ canvasCounter < NoiseDraws(canvasAlpha) * (MaxExports + MaxPixelReads)
    /\ Len(exports) + MaxPixelReads > canvasCounter \div NoiseDraws(canvasAlpha)
    /\ canvasCounter' = canvasCounter + NoiseDraws(canvasAlpha)
    /\ WrappedCalls(1, NoiseDraws(canvasAlpha))
    /\ UNCHANGED <<mainVars, perfVars, pageVars, pluginVars, streamSeed, phase, rndCounter, rndOut,
                   hwProfile, reads, canvasSource, canvasData, canvasAlpha, exports>>

\* The page calls a wrapped Math function.
CanvasCallMath ==
    /\ mathCounter[1] < MaxMathCalls + canvasCounter
    /\ WrappedCalls(1, 1)
    /\ UNCHANGED <<mainVars, perfVars, pageVars, canvasVars, pluginVars, streamSeed, phase, rndCounter, rndOut, hwProfile, reads>>

NextCanvas == ToDataURL \/ GetImageData \/ CanvasCallMath

SpecCanvas == InitCanvas /\ [][NextCanvas]_vars

\* ======================================================== one page's clock
\* Times are kept in thousandths of a millisecond.

\* Math.round(time * 10) / 10: the nearest tenth of a millisecond, a tie going up.
RoundTenth(time) == ((time + 50) \div 100) * 100

\* perfRandom.float(0, 0.1) of the draw that makes the counter c; the Math
\* functions are wrapped by the time a page calls.
perfJitter(s, c, mc) == Float(SeededNext(s, 9, c, TRUE, mc), 0, 100)

\* What the replaced performance.now returns when the native one returns time.
overriddenNow(time, s, c, mc) == RoundTenth(time) + perfJitter(s, c, mc)

PerfSeeds == {3, 4}
NativeStarts == {0, 40}
NativeSteps == {0, 20, 60}

InitPerf ==
    /\ InitPages
    /\ scripts = 1
    /\ InitNoSelection
    /\ streamSeed \in PerfSeeds
    /\ phase = [p \in Tabs |-> "ready"]
    /\ InitNoCalls
    /\ InitNoReads
    /\ InitNoPage
    /\ InitNoCanvas
    /\ InitNoPlugin
    /\ perfNative \in NativeStarts
    /\ perfCounter = 0
    /\ perfOut = <<>>

\* performance.now(), called when the native clock has moved on by d.
PerformanceNow(d) ==
    /\ Len(perfOut) < MaxNowReads
    /\ perfNative' = perfNative + d
    /\ perfCounter' = nextCounter(perfCounter)
    /\ perfOut' = Append(perfOut,
           [native |-> perfNative + d,
            value |-> overriddenNow(perfNative + d, streamSeed, nextCounter(perfCounter),
                                    mathCounter[1])])
    /\ WrappedCalls(1, 1)
    /\ UNCHANGED <<mainVars, pageVars, canvasVars, pluginVars, streamSeed, phase,
                   rndCounter, rndOut, hwProfile, reads>>

\* The page calls a wrapped Math function.
PerfCallMath ==
    /\ mathCalls[1] < MaxMathCalls + perfCounter
    /\ WrappedCalls(1, 1)
    /\ UNCHANGED <<mainVars, perfVars, pageVars, canvasVars, pluginVars, streamSeed, phase,
                   rndCounter, rndOut, hwProfile, reads>>

NextPerf == (\E d \in NativeSteps : PerformanceNow(d)) \/ PerfCallMath

SpecPerf == InitPerf /\ [][NextPerf]_vars

\* ============================================================== one plugin
\* Seeds of the generator's domain [0, 1), in tenths.
SeedDomain == 0..9

InitPlugin ==
    /\ InitPages
    /\ scripts = 0
    /\ InitNoSelection
    /\ InitNoStreams
    /\ InitNoPage
    /\ InitNoCanvas
    /\ InitNoPerf
    /\ optSeed \in SeedDomain \cup {NullNum}
    /\ optCrossTab \in BOOLEAN
    /\ plugin = NoConfig
    /\ payload = NoConfig

\* new PlaywrightAntiFingerprintPlugin({sessionSeed: optSeed, ...}); r is what
\* Math.random() returns.
Construct ==
    /\ plugin = NoConfig
    /\ \E r \in SeedDomain : plugin' = configData(optSeed, r, optCrossTab)
    /\ UNCHANGED <<mainVars, perfVars, streamVars, pageVars, canvasVars, optSeed, optCrossTab, payload>>

\* injectionScript(context): configData is built from the plugin's fields and
\* given to context.addInitScript, which hands it to every page.
InjectionScript ==
    /\ plugin # NoConfig
    /\ payload = NoConfig
    /\ payload' = plugin
    /\ scripts' = scripts + 1
    /\ UNCHANGED <<now, options, storageVars, pc, scriptVars, timerVars, channelVars,
                   historyVars, selVars, streamVars, pageVars, canvasVars, perfVars, optSeed,
                   optCrossTab, plugin>>

NextPlugin == Construct \/ InjectionScript

SpecPlugin == InitPlugin /\ [][NextPlugin]_vars

\* ===================================================================== claims
\* The resolution of page t read a seed string that names a usable seed, so that
\* the return statement did not fall back to Math.random().
ParsedSeed(t) == TruthyNum(ParseFloat(seed[t]))

\* Page t coordinates and its getSessionSeed has just returned.
JustResolved(t) == pc[t] = "resolved" /\ CONFIG[t].crossTabConsistency

\* C1: with cross-tab consistency enabled, when page a has written the stored seed
\* and a heartbeat, is still open, and page b's resolution began only after that,
\* both end with the same resolved seed, the provided seed of a, whatever provided
\* seed b was given.
C1_SequentialTabsConverge ==
    \A a \in Tabs, b \in Tabs :
        (/\ JustResolved(b)
         /\ a \in liveAtStart[b]
         /\ seedWriter = a
         /\ SettledOpen(a))
        => /\ sessionSeed[b] = sessionSeed[a]
           /\ sessionSeed[b] = CONFIG[a].sessionSeed

\* C2: with heartbeatInterval < sessionTimeout, as long as a page a that has resolved
\* its seed is open (whether it wrote the seed or reused it), a page b whose
\* resolution runs after a's, while a stays open, resolves the seed of a.
C2_SessionStaysLive ==
    \A a \in Tabs, b \in Tabs :
        (/\ options.heartbeatInterval < options.sessionTimeout
         /\ JustResolved(b)
         /\ a \in liveAtStart[b]
         /\ TruthyNum(sessionSeed[a])
         /\ SettledOpen(a))
        => sessionSeed[b] = sessionSeed[a]

\* C3: a page that finds a stored seed whose heartbeat is at least sessionTimeout old
\* does not reuse it: it resolves to its own provided seed.
C3_StaleSessionReplaced ==
    \A t \in Tabs :
        (JustResolved(t) /\ path[t] = "expired")
        => sessionSeed[t] = CONFIG[t].sessionSeed

\* C4: when the teardown timer of a page fires and no other page has been open since
\* its beforeunload, the stored seed and the stored heartbeat are both removed.
C4_LastTabClearsSession ==
    [][\A t \in Tabs :
          (pc[t] = "unloading" /\ pc'[t] = "unloaded" /\ solo[t])
          => (storedSeed' = NullStr /\ storedHeartbeat' = NullStr)]_vars

\* C5: when the teardown timer of a page fires after a pong has been delivered to
\* it (as it has when the ping and the pong of an open sibling were both delivered
\* within the grace period), the page removes neither the stored seed nor the stored
\* heartbeat: storage is the same after the teardown as before it.
C5_SiblingProtection ==
    [][\A t \in Tabs :
          (pc[t] = "unloading" /\ pc'[t] = "unloaded" /\ hasOtherTabs[t])
          => (storedSeed' = storedSeed /\ storedHeartbeat' = storedHeartbeat)]_vars

\* A page has torn down after hearing the pong of a sibling that is still open, and
\* the session's seed and heartbeat are still stored.
C5_Witness ==
    \E t \in Tabs, u \in Tabs :
        /\ t # u
        /\ pc[t] = "unloaded"
        /\ hasOtherTabs[t]
        /\ ~pings[u]
        /\ pc[u] = "installed"
        /\ responder[u]
        /\ storedSeed = NumberToString(sessionSeed[u])
        /\ storedHeartbeat # NullStr

\* C6: when storage or the broadcast channel throws during seed resolution, the
\* error does not leave seed resolution: the page resolves its provided seed and
\* goes on to install every interceptor.
C6_StorageFailureContained ==
    \A t \in Tabs :
        (pc[t] # "closed" /\ ~Busy(t) /\ env[t] # "ok")
        => /\ pc[t] # "threw"
           /\ sessionSeed[t] = CONFIG[t].sessionSeed
           /\ \A m \in Modules : installed[t][m] >= 1

\* C7: a page with cross-tab consistency disabled resolves exactly its provided
\* seed, never reads or writes storage, has no heartbeat timer, no teardown handler
\* and no channel, and none of its steps changes the stored seed or heartbeat.
C7_DisabledTouchesNothing ==
    [][\A t \in Tabs :
          /\ (pc'[t] # "closed" /\ ~CONFIG'[t].crossTabConsistency)
             => /\ pc'[t] \in {"getSessionSeed", "resolved", "profileSelected",
                               "installed"}
                /\ path'[t] \in {"none", "provided"}
                /\ seed'[t] = NullStr
                /\ (pc'[t] # "getSessionSeed"
                      => sessionSeed'[t] = CONFIG'[t].sessionSeed)
                /\ heartbeatTimer'[t] = NoTimer
                /\ ~unloadHandler'[t]
                /\ ~responder'[t]
                /\ ~closeChannel'[t]
          /\ (/\ pc'[t] # pc[t]
              /\ \/ pc[t] # "closed" /\ ~CONFIG[t].crossTabConsistency
                 \/ pc'[t] # "closed" /\ ~CONFIG'[t].crossTabConsistency)
             => (storedSeed' = storedSeed /\ storedHeartbeat' = storedHeartbeat)]_vars

\* A page with cross-tab consistency disabled has run its script and holds its
\* provided seed while storage holds the live session of another seed.
C7_Witness ==
    \E t \in Tabs :
        /\ pc[t] = "installed"
        /\ ~CONFIG[t].crossTabConsistency
        /\ sessionSeed[t] = CONFIG[t].sessionSeed
        /\ TruthyStr(storedSeed)
        /\ storedSeed # NumberToString(sessionSeed[t])
        /\ checkActiveSession(storedHeartbeat, now, options.sessionTimeout)

\* C8: on every page of a context the plugin was applied to, any number of times,
\* every interceptor module is installed exactly once: never twice, and once when
\* the script has run.
C8_InstalledExactlyOnce ==
    \A t \in Tabs :
        env[t] = "ok"
        => \A m \in Modules :
              /\ installed[t][m] <= 1
              /\ (pc[t] = "installed" => installed[t][m] = 1)

\* C9: the device profile a page uses is the one selected from the seed the page
\* resolved: catalog[floor(seed * size) mod size].
C9_ProfileFromResolvedSeed ==
    \A t \in Tabs :
        (pc[t] = "profileSelected" /\ (path[t] = "provided" \/ ParsedSeed(t)))
        => selectedProfile[t] = selectProfile(sessionSeed[t], DEFAULT_DEVICE_PROFILES)

\* The members of a catalog.
Members(profiles) == {profiles[i] : i \in 1..Len(profiles)}

\* C10: for every non-empty catalog and every seed, in [0,1) or at or above 1,
\* floor(seed * size) mod size lies in 0..size-1 and the selected profile is a
\* member of the catalog, never undefined.
C10_SelectionInRange ==
    /\ (FloorMul(selSeed, Len(selProfiles)) % Len(selProfiles))
          \in 0..(Len(selProfiles) - 1)
    /\ selCall = "selectProfile" => selResult \in Members(selProfiles)
    /\ selCall = "getRandomProfile" => selResult \in Members(DEFAULT_DEVICE_PROFILES)

\* A seed at or above 1, whose floor(seed * size) is past the end of the catalog,
\* has been given to the selection and a member of the catalog came back.
C10_Witness ==
    /\ selCall = "selectProfile"
    /\ selSeed >= 10
    /\ FloorMul(selSeed, Len(selProfiles)) >= Len(selProfiles)
    /\ selResult \in Members(selProfiles)

\* C11: two SeededRandom instances constructed with the same seed return the
\* same k-th value for every k, whenever they are called: the hardwareRandom
\* of two pages that resolved the same session seed agree on every draw both
\* have made.
C11_SameSeedSameSequence ==
    \A k \in 1..MaxDraws :
        (k <= Len(rndOut[1]) /\ k <= Len(rndOut[2])) => rndOut[1][k] = rndOut[2][k]

\* The groups of browser objects the capability-absent rule names.
CapabilityGroups == {PeerConnections, BatteryApi, WebGLClasses, AudioClasses, PermissionsApi}

\* C12: when the page lacks every peer-connection constructor, the battery API,
\* the WebGL context classes, the audio context classes or the permissions API,
\* the script never throws, replaces nothing of the absent group, and once it
\* has finished everything else the page has is replaced.
C12_AbsentCapabilityNoOp ==
    /\ ~scriptThrew
    /\ \A g \in CapabilityGroups : g \cap pageObjects = {} => g \cap wrapped = {}
    /\ Finished => \A o \in AllTargets : Present(o) => o \in wrapped

C12_Witness ==
    /\ Finished
    /\ \A g \in CapabilityGroups : g \cap pageObjects = {}
    /\ {"HTMLCanvasElement", "hardwareConcurrency", "Math", "performance.now"} \subseteq wrapped

\* C13: on a context with the debug-renderer-info extension every query of the
\* unmasked vendor returns the selected profile's gpu.vendor and every query of
\* the unmasked renderer returns a string that contains the profile's
\* gpu.renderer, on the first and on every later query, whatever webglRandom has
\* drawn.
C13_GpuFromProfile ==
    lastRead.debugInfo =>
        /\ lastRead.what = "vendor" => lastRead.str = <<pageProfile.gpu.vendor>>
        /\ lastRead.what = "renderer" =>
               \E i \in 1..Len(lastRead.str) : lastRead.str[i] = pageProfile.gpu.renderer

C13_Witness ==
    /\ lastRead.debugInfo
    /\ lastRead.what = "renderer"
    /\ webglCounter = 2

\* The value the selected profile holds for a hardware property.
Claimed(prop) ==
    CASE prop = "hardwareConcurrency" -> pageProfile.hardware.cores
      [] prop = "deviceMemory" -> pageProfile.hardware.memory
      [] prop = "width" -> pageProfile.screen.width
      [] prop = "height" -> pageProfile.screen.height
      [] prop = "colorDepth" -> pageProfile.screen.colorDepth

\* C14 as stated: after installation every read of the core count, the device
\* memory and the screen width, height and colour depth returns the selected
\* profile's value.
C14_HardwareFromProfile ==
    lastRead.what \in HardwareProps => lastRead.num = Claimed(lastRead.what)

\* C14, amended: every read of the core count and of the screen width, height
\* and colour depth returns the selected profile's value; a read of device
\* memory returns the profile's hardware.memory when the page's navigator has
\* deviceMemory, and undefined when it has not; the value is the same on every
\* read.
C14_HardwareFromProfileWherePresent ==
    lastRead.what \in HardwareProps =>
        IF lastRead.what = "deviceMemory" /\ "deviceMemory" \notin pageObjects
        THEN lastRead.num = UndefinedNum
        ELSE lastRead.num = Claimed(lastRead.what)

C14_Witness ==
    /\ Finished
    /\ pageProfile.hardware.cores = 12
    /\ lastRead.what = "deviceMemory"
    /\ lastRead.num = 32

\* C15: for a uniform opaque image two exports of the canvas in one page differ,
\* and in every export every channel value is within 0.5 of the source value
\* and inside [0, 255].
C15_ExportsDifferWithinHalf ==
    (\A j \in 1..NumPixels : canvasAlpha[j] > 0) =>
    /\ Len(exports) >= 2 => exports[1] # exports[2]
    /\ \A e \in 1..Len(exports) : \A j \in 1..NumPixels :
           /\ 2 * exports[e][j] <= 2 * canvasSource + 1
           /\ 2 * exports[e][j] >= 2 * canvasSource - 1
           /\ exports[e][j] \in 0..255

\* C17: when the options give a numeric session seed, 0 included, the payload
\* handed to the pages carries exactly that seed and the profile selected from
\* it; the plugin draws a random seed only when the option is null.
C17_SuppliedSeedCarried ==
    (payload # NoConfig /\ optSeed # NullNum) =>
        /\ payload.sessionSeed = optSeed
        /\ payload.selectedProfile = selectProfile(optSeed, DEFAULT_DEVICE_PROFILES)

\* A stored heartbeat exists and is younger than sessionTimeout.
LiveHeartbeat ==
    /\ TruthyStr(storedHeartbeat)
    /\ now - ParseInt(storedHeartbeat) < options.sessionTimeout

\* C18: with cross-tab consistency enabled a page keeps the stored seed exactly
\* when a stored seed exists and a stored heartbeat exists with
\* now - heartbeat < sessionTimeout (an elapsed time equal to sessionTimeout is
\* not live); then its resolved seed is the stored seed, and in every other
\* case its resolved seed is the provided seed, which it has stored.
C18_ResolutionRule ==
    [][\A t \in Tabs :
          /\ (pc[t] = "checkActiveSession" /\ pc'[t] # "checkActiveSession")
             => (path'[t] = "reused" <=> LiveHeartbeat)
          /\ (pc[t] = "getSessionSeed" /\ pc'[t] = "writeSeed") => ~TruthyStr(storedSeed)
          /\ (pc[t] = "getSessionSeed" /\ pc'[t] = "checkActiveSession")
             => TruthyStr(storedSeed)
          /\ (pc[t] # "resolved" /\ JustResolved(t)')
             => IF path'[t] = "reused"
                THEN NumberToString(sessionSeed'[t]) = seed'[t]
                ELSE /\ sessionSeed'[t] = CONFIG[t].sessionSeed
                     /\ seedWriter' = t =>
                            storedSeed' = NumberToString(CONFIG[t].sessionSeed)]_vars

\* Pages a and b both read the seed key while it was absent, so each read before
\* the other wrote, and both have since written and returned from getSessionSeed.
Raced(a, b) ==
    /\ a # b
    /\ path[a] = "absent" /\ path[b] = "absent"
    /\ pc[a] \in {"resolved", "profileSelected"}
    /\ pc[b] \in {"resolved", "profileSelected"}

\* C16: the race is reachable and ends in divergence: when two tabs that open
\* with no live session and different provided seeds both read storage before
\* either writes, both take the write path and each resolves its own provided
\* seed, so the two resolved seeds differ.
C16_RaceDiverges ==
    \A a \in Tabs, b \in Tabs :
        (Raced(a, b) /\ CONFIG[a].sessionSeed # CONFIG[b].sessionSeed)
        => /\ sessionSeed[a] = CONFIG[a].sessionSeed
           /\ sessionSeed[b] = CONFIG[b].sessionSeed
           /\ sessionSeed[a] # sessionSeed[b]
           /\ storedSeed \in {NumberToString(CONFIG[a].sessionSeed),
                              NumberToString(CONFIG[b].sessionSeed)}

C16_Witness ==
    /\ Raced(1, 2)
    /\ CONFIG[1].sessionSeed # CONFIG[2].sessionSeed
    /\ sessionSeed[1] # sessionSeed[2]
    /\ sessionSeed[1] # NullNum /\ sessionSeed[2] # NullNum

\* C19: once a page has resolved its seed, for as long as the page lives the
\* seed keeps its value and the page does not read the seed key again, whatever
\* is written to or removed from storage; so two pages that resolved different
\* seeds stay different.
C19_ResolvedSeedFixed ==
    [][\A t \in Tabs :
          (sessionSeed[t] # NullNum /\ pc'[t] # "closed")
          => /\ sessionSeed'[t] = sessionSeed[t]
             /\ pc'[t] \notin {"checkActiveSession", "writeSeed"}
             /\ \A u \in Tabs :
                   (sessionSeed[u] # NullNum /\ pc'[u] # "closed"
                       /\ sessionSeed[u] # sessionSeed[t])
                   => sessionSeed'[u] # sessionSeed'[t]]_vars

\* The lifecycle state of page t: 0 Uninitialized, 1 SeedResolved,
\* 2 ProfileSelected, 3 InterceptorsInstalled.
Stage(t) ==
    IF \E m \in Modules : installed[t][m] > 0 THEN 3
    ELSE IF selectedProfile[t] # Undefined THEN 2
    ELSE IF sessionSeed[t] # NullNum THEN 1
    ELSE 0

\* C20: every page passes Uninitialized, SeedResolved, ProfileSelected,
\* InterceptorsInstalled in that order; nothing is installed before the seed is
\* resolved and the profile selected; and a page that has reached
\* InterceptorsInstalled stays there for its life, with the same interceptors,
\* seed and profile and without resolving again.
C20_LifecycleOrder ==
    [][\A t \in Tabs :
          pc'[t] # "closed"
          => /\ Stage(t)' \in {Stage(t), Stage(t) + 1}
             /\ Stage(t)' = 3 => (sessionSeed'[t] # NullNum /\ selectedProfile'[t] # Undefined)
             /\ Stage(t) = 3
                => /\ installed'[t] = installed[t]
                   /\ sessionSeed'[t] = sessionSeed[t]
                   /\ selectedProfile'[t] = selectedProfile[t]
                   /\ ~Busy(t)']_vars

\* C21: a draw from a module's own stream advances that stream's counter and
\* no other: whenever a page's hardwareRandom counter moves, at installation or
\* on a later read, the counter of its math stream stays where it was.
C21_DrawAdvancesOnlyOwnCounter ==
    [][\A p \in Tabs :
           rndCounter'[p] # rndCounter[p] => mathCounter'[p] = mathCounter[p]]_vars

\* C22: a stream's counter starts at 0, goes up by exactly one with every value
\* the stream returns, and is never lowered or started over: every step leaves
\* it alone or adds one, and adds one exactly when a value has been drawn.
C22_CounterStep ==
    \A p \in Tabs :
        /\ rndCounter'[p] \in {rndCounter[p], rndCounter[p] + 1}
        /\ Len(rndOut'[p]) - Len(rndOut[p]) = rndCounter'[p] - rndCounter[p]
        /\ mathCounter'[p] >= mathCounter[p]

C22_CounterCountsDraws ==
    /\ \A p \in Tabs : rndCounter[p] = 0 /\ mathCounter[p] = 0
    /\ [][C22_CounterStep]_vars

C22_Witness ==
    /\ rndCounter[1] = MaxDraws
    /\ Len(rndOut[1]) = MaxDraws
    /\ mathCounter[1] > 0

\* C23: a call of a wrapped Math function, the wrapped sine included, calls the
\* function it replaced once and draws once from the math stream, and no wrapper
\* is entered while the noise is computed: the calls of the originals and the
\* math counter both equal the number of calls the page made.
C23_OneOriginalOneDraw ==
    \A p \in Tabs :
        /\ originalCalls[p] = mathCalls[p]
        /\ mathCounter[p] = mathCalls[p]

C23_Witness ==
    /\ mathCalls[1] > MaxMathCalls
    /\ rndCounter[1] > 1

\* C24: two tabs with the same seed and profile report the same devicePixelRatio
\* and the same maxTouchPoints on every read, however many reads either has made
\* before; maxTouchPoints is 0 on MacIntel and one of 0, 1, 5, 10 otherwise.
C24_HardwareReadsAgree ==
    \A p \in Tabs, q \in Tabs :
        \A i \in 1..Len(reads[p]), j \in 1..Len(reads[q]) :
            /\ (p # q /\ reads[p][i].prop = reads[q][j].prop) =>
                   reads[p][i].value = reads[q][j].value
            /\ reads[p][i].prop = "maxTouchPoints" =>
                   /\ reads[p][i].value \in {0, 1, 5, 10}
                   /\ hwProfile.platform = "MacIntel" => reads[p][i].value = 0

\* C25: an export perturbs every pixel with alpha > 0 on each of its three
\* colour channels with a draw of its own, three draws for such a pixel, and
\* leaves alone, without a draw, the pixels with alpha 0 and the alpha channel.
C25_ThreeDrawsPerOpaquePixel ==
    [][/\ canvasCounter' # canvasCounter =>
              canvasCounter' - canvasCounter = 3 * NoiseDraws(canvasAlpha)
       /\ \A j \in 1..NumPixels : canvasAlpha[j] = 0 => canvasData'[j] = canvasData[j]
       /\ canvasAlpha' = canvasAlpha]_vars

\* C30: successive reads of the overridden performance.now never go back when
\* the native clock does not: of two reads, the later one whose native time is
\* not smaller reports a value that is not smaller.
C30_NowMonotonic ==
    \A i \in 1..Len(perfOut), j \in 1..Len(perfOut) :
        (i < j /\ perfOut[i].native <= perfOut[j].native)
        => perfOut[i].value <= perfOut[j].value

\* A step in which setItem was called: a key of the session changed to a value.
StorageWritten ==
    \/ (storedSeed' # storedSeed /\ storedSeed' # NullStr)
    \/ (storedHeartbeat' # storedHeartbeat /\ storedHeartbeat' # NullStr)

\* C26: a tab that reuses a live session writes neither key while it resolves:
\* the step that takes the reuse path, and every later step of that script run,
\* leave storage as it was, and the heartbeat timer is set to fire one
\* heartbeatInterval later; after that a tab writes only when its heartbeat timer
\* is due, so the first write of a reusing tab is its first heartbeat tick.
C26_ReusePathWritesNothing ==
    [][/\ \A t \in Tabs :
              /\ (pc[t] = "checkActiveSession" /\ path'[t] = "reused")
                 => /\ storedSeed' = storedSeed
                    /\ storedHeartbeat' = storedHeartbeat
                    /\ heartbeatTimer'[t] = now + options.heartbeatInterval
              /\ (path[t] = "reused" /\ pc'[t] # pc[t])
                 => (storedSeed' = storedSeed /\ storedHeartbeat' = storedHeartbeat)
       /\ StorageWritten
          => \E u \in Tabs :
                 \/ (pc[u] \in {"writeSeed", "updateHeartbeat"} /\ pc'[u] # pc[u])
                 \/ (heartbeatTimer[u] = now /\ heartbeatTimer'[u] # heartbeatTimer[u]
                        /\ pc'[u] = pc[u])]_vars

C26_Witness ==
    \E t \in Tabs :
        /\ path[t] = "reused"
        /\ pc[t] = "resolved"
        /\ storedSeed # NullStr
        /\ heartbeatTimer[t] = now + options.heartbeatInterval

C27_BothTeardownsClear ==
    [][((\E t \in Tabs : pc[t] # "unloaded") /\ (\A t \in Tabs : pc'[t] = "unloaded"))
       => (storedSeed' = NullStr /\ storedHeartbeat' = NullStr)]_vars

\* The channel objects a message of the step was posted to, and the ones that
\* took a message off their queue.
PingPosted == {u \in Tabs : pings'[u] /\ ~pings[u]}
PongPosted == {v \in Tabs : pongs'[v] /\ ~pongs[v]}
PingTaken == {u \in Tabs : pings[u] /\ ~pings'[u]}
PongTaken == {v \in Tabs : pongs[v] /\ ~pongs'[v]}

\* C29: the probe traffic dies out.  A pong is only ever posted by a responder
\* that takes one ping, one pong for that ping; nothing is posted by whoever
\* takes a pong; and a ping is only ever posted by a page's teardown handler as
\* it starts, one per teardown.  So no message answers a pong and the pings
\* and pongs cannot feed each other.
C29_ProbeTrafficEnds ==
    [][/\ PongPosted # {}
          => (Cardinality(PingTaken) = 1 /\ PingPosted = {} /\ PongTaken = {})
       /\ PongTaken # {} => (PingPosted = {} /\ PongPosted = {})
       /\ PingPosted # {}
          => /\ Cardinality({t \in Tabs : pc[t] = "installed" /\ pc'[t] = "unloading"}) = 1
             /\ PongPosted = {}]_vars

C29_Witness ==
    \E t \in Tabs :
        /\ pc[t] = "unloading"
        /\ hasOtherTabs[t]
        /\ \A u \in Tabs : ~pings[u] /\ ~pongs[u]
====
